---------------------------- MODULE Spec2Model ----------------------------
(***************************************************************************)
(* The variable-resolution pipeline of the Spilo (PostgreSQL) senza        *)
(* template, acid/senza/templates/base.py: set_default_variables,          *)
(* gather_user_variables and generate_definition, with the helpers they    *)
(* call.                                                                   *)
(*                                                                         *)
(* Representation of Python values:                                        *)
(*   - a str is a sequence of atoms.  Text the code looks into (DNS names, *)
(*     zones, URLs, regions, descriptions, group names) is spelled one     *)
(*     character per atom; text it only passes around (identifiers,        *)
(*     literals of format strings) is one atom per piece;                  *)
(*   - None is the sequence None below, whose only atom is no character    *)
(*     and no piece of any text of the model, so it equals no str;         *)
(*   - a dict is a function whose DOMAIN is the set of keys present.       *)
(***************************************************************************)
EXTENDS Integers, Sequences, FiniteSets, TLC

VARIABLES
    variables,   \* the configuration record (the dict `variables`)
    world,       \* what the external collaborators answer during this run
    pc,          \* where the caller / gather_user_variables stands
    calls,       \* the collaborator calls made so far, in order
    error,       \* the fatal error or exception that ended the process
    document,    \* what generate_definition rendered
    nDefaults    \* direct calls of set_default_variables made by the caller

vars == <<variables, world, pc, calls, error, document, nDefaults>>

-----------------------------------------------------------------------------
(* Python str and list helpers *)

None == <<"None">>

\* bool(v) for a value that is a str or None
Truthy(v) == v # None /\ v # <<>>

\* s.endswith(suffix)
EndsWith(s, suffix) ==
    /\ Len(suffix) <= Len(s)
    /\ SubSeq(s, Len(s) - Len(suffix) + 1, Len(s)) = suffix

\* s.startswith(prefix)
StartsWith(s, prefix) ==
    /\ Len(prefix) <= Len(s)
    /\ SubSeq(s, 1, Len(prefix)) = prefix

\* the index of the first occurrence of the atom c in s, or 0
RECURSIVE IndexFrom(_, _, _)
IndexFrom(s, c, i) ==
    IF i > Len(s) THEN 0
    ELSE IF s[i] = c THEN i
    ELSE IndexFrom(s, c, i + 1)

\* s.split(sep) for a one-character separator: a list of str
RECURSIVE Split(_, _)
Split(s, sep) ==
    LET i == IndexFrom(s, sep, 1)
    IN  IF i = 0 THEN <<s>>
        ELSE <<SubSeq(s, 1, i - 1)>> \o Split(SubSeq(s, i + 1, Len(s)), sep)

\* sep.join(parts)
RECURSIVE Join(_, _)
Join(sep, parts) ==
    IF Len(parts) = 0 THEN <<>>
    ELSE IF Len(parts) = 1 THEN parts[1]
    ELSE parts[1] \o sep \o Join(sep, Tail(parts))

\* sub in s
Contains(s, sub) ==
    \E i \in 0..(Len(s) - Len(sub)) : SubSeq(s, i + 1, i + Len(sub)) = sub

LowerOf == [c \in {"S", "P", "I", "L", "O"} |->
              CASE c = "S" -> "s" [] c = "P" -> "p" [] c = "I" -> "i"
                [] c = "L" -> "l" [] c = "O" -> "o"]

\* s.lower()
Lower(s) == [i \in 1..Len(s) |-> IF s[i] \in DOMAIN LowerOf THEN LowerOf[s[i]] ELSE s[i]]

\* the dict d after d[k] = v
Put(d, k, v) == [x \in DOMAIN d \cup {k} |-> IF x = k THEN v ELSE d[x]]

\* d.get(k)
Get(d, k) == IF k \in DOMAIN d THEN d[k] ELSE None


-----------------------------------------------------------------------------
(* Module constants of base.py *)

POSTGRES_PORT == 5432
HEALTHCHECK_PORT == 8008
ODD_SG_GROUP_NAME_REGEX == <<"O", "d", "d", ".", "*">>
ZMON_SG_GROUP_NAME_REGEX == <<"a", "p", "p", "-", "z", "m", "o", "n", "-", "d", "b">>
EBS_ALIAS == "alias/aws/ebs"
SPILO == <<"s", "p", "i", "l", "o">>
REPL == <<"-", "r", "e", "p", "l">>
KMS_TAG == <<"aws:kms:">>

RequiredFields == <<"team_name", "team_region", "team_gateway_zone", "hosted_zone">>
DnsNameFields == <<"master_dns_name", "replica_dns_name">>
PasswordKeys == <<"pgpassword_admin", "pgpassword_standby", "pgpassword_superuser">>

\* the options given a default that calls no collaborator, with that default
StaticDefaults ==
    [version |-> <<"{{Arguments.version}}">>,
     team_name |-> None,
     team_region |-> None,
     team_gateway_zone |-> None,
     add_replica_loadbalancer |-> FALSE,
     discovery_domain |-> None,
     master_dns_name |-> None,
     ebs_optimized |-> None,
     fsoptions |-> <<"noatime,nodiratime,nobarrier">>,
     fstype |-> <<"ext4">>,
     healthcheck_port |-> HEALTHCHECK_PORT,
     hosted_zone |-> None,
     instance_type |-> <<"m4.large">>,
     number_of_instances |-> 3,
     ldap_url |-> None,
     ldap_suffix |-> None,
     kms_arn |-> None,
     odd_sg_id |-> None,
     postgresqlconf |-> None,
     postgres_port |-> POSTGRES_PORT,
     promotheus_port |-> <<"9100">>,
     replica_dns_name |-> None,
     snapshot_id |-> None,
     use_ebs |-> TRUE,
     volume_iops |-> None,
     volume_size |-> 50,
     volume_type |-> <<"gp2">>,
     wal_s3_bucket |-> None,
     zmon_sg_id |-> None,
     use_spot_instances |-> FALSE,
     spot_price |-> 0]

\* every option set_default_variables knows
RecognizedOptions ==
    DOMAIN StaticDefaults \cup {"docker_image"} \cup {PasswordKeys[i] : i \in 1..Len(PasswordKeys)}

\* ebs_optimized_supported(instance_type)
ebs_optimized_supported(instance_type) ==
    instance_type \in
        {<<t>> : t \in {"c1.large", "c3.xlarge", "c3.2xlarge", "c3.4xlarge",
                        "c4.large", "c4.xlarge", "c4.2xlarge", "c4.4xlarge", "c4.8xlarge",
                        "d2.xlarge", "d2.2xlarge", "d2.4xlarge", "d2.8xlarge",
                        "g2.2xlarge", "i2.xlarge", "i2.2xlarge", "i2.4xlarge",
                        "m1.large", "m1.xlarge", "m2.2xlarge", "m2.4xlarge",
                        "m3.xlarge", "m3.2xlarge", "r3.xlarge", "r3.2xlarge",
                        "r3.4xlarge"}}


-----------------------------------------------------------------------------
(* Bounds of the exploration *)

\* direct calls of set_default_variables the caller makes besides the one
\* gather_user_variables makes
MaxDefaultCalls == 1
\* security groups in a listing of describe_security_groups
MaxGroups == 3
\* keys in a listing of list_kms_keys
MaxKeys == 2
\* characters of the master DNS names tried exhaustively
MaxNameLen == 3

-----------------------------------------------------------------------------
(* Sample texts, one character per atom *)

EU_WEST == <<"e", "u", "-", "w", "e", "s", "t", "-", "1">>
EU_CENTRAL == <<"e", "u", "-", "c", "e", "n", "t", "r", "a", "l", "-", "1">>

\* a key the caller did not put into the record
Absent == <<"Absent">>

TeamNames == {Absent, <<>>, <<"t">>}
TeamRegions == {Absent, None, EU_WEST, EU_CENTRAL}
GatewayZones == {Absent, <<"g">>, <<"g", ".">>}
HostedZones == {Absent, <<"z">>, <<"z", ".">>, <<"z", ".", ".">>, <<".", "z">>}
\* every text of at most MaxNameLen characters of a DNS name
NameTexts == UNION {[1..n -> {"m", ".", "z"}] : n \in 0..MaxNameLen}
MasterNames == {Absent, <<"m", ".", "z", ".">>, <<"m", ".", "x">>} \cup NameTexts
ReplicaNames == {Absent, <<>>, <<"r", ".", "z">>, <<"r", ".", "x">>, <<"z">>}
LdapUrls == {Absent, <<"l", ":", "/", "/", "h">>, <<"l", ":", "/", "/", "h", "/">>,
             <<"l", ":", "/", "/", "h", "/", "o">>, <<"h", "/", "o">>}
LdapSuffixes == {Absent, <<"s">>}
UserPasswords == {Absent, <<"U", "1">>}
\* what generate_random_password can return
GeneratedPasswords == {<<"A", "7">>, <<"7", "A">>}

\* the record holding the chosen options, without the ones chosen Absent
Record(choice) == [k \in {x \in DOMAIN choice : choice[x] # Absent} |-> choice[k]]

\* d overridden by the entries of e
Override(d, e) == [k \in DOMAIN d \cup DOMAIN e |-> IF k \in DOMAIN e THEN e[k] ELSE d[k]]

BaseInput ==
    [team_name |-> <<"t">>, team_region |-> EU_WEST,
     team_gateway_zone |-> <<"g">>, hosted_zone |-> <<"z">>]

\* records differing in the required options
RequiredInputs ==
    {Record([team_name |-> n, team_region |-> r, team_gateway_zone |-> g, hosted_zone |-> h]) :
        n \in TeamNames, r \in TeamRegions, g \in GatewayZones, h \in HostedZones}

\* records differing in the zone and the DNS names
DnsInputs ==
    {Override(BaseInput, Record([hosted_zone |-> h, master_dns_name |-> m, replica_dns_name |-> r])) :
        h \in HostedZones \ {Absent}, m \in MasterNames, r \in ReplicaNames}

\* records differing in the LDAP options
LdapInputs ==
    {Override(BaseInput, Record([ldap_url |-> u, ldap_suffix |-> x])) :
        u \in LdapUrls, x \in LdapSuffixes}

\* records differing in the passwords the caller supplies
SecretInputs ==
    {Override(BaseInput, Record([pgpassword_admin |-> a, pgpassword_standby |-> b,
                                 pgpassword_superuser |-> c])) :
        a \in UserPasswords, b \in UserPasswords, c \in UserPasswords}

\* records differing in the volume, instance and pricing options
SizingInputs ==
    {Override(BaseInput, e) :
        e \in {[volume_type |-> <<"io1">>],
               [volume_type |-> <<"io1">>, volume_iops |-> <<"100">>],
               [instance_type |-> <<"c3.xlarge">>],
               [use_spot_instances |-> TRUE],
               [use_spot_instances |-> TRUE, spot_price |-> 5]}}

\* records differing in the raw Postgres configuration fragment
ConfInputs ==
    {Override(BaseInput, [postgresqlconf |-> c]) :
        c \in {<<"{", "a", ":", "1", ",", " ", "b", ":", "2", "}">>,
               <<"{", "a", ":", "1", ",", "a", ":", "1", "}">>,
               <<"{", "a", ":", "1", ":", "2", "}">>,
               <<"{", "a", "}">>,
               <<>>}}

Inputs == RequiredInputs \cup DnsInputs \cup LdapInputs \cup SecretInputs
              \cup SizingInputs \cup ConfInputs


-----------------------------------------------------------------------------
(* What the external collaborators answer *)

\* the sequences of at most n distinct elements of S
DistinctSeqs(S, n) ==
    {q \in UNION {[1..k -> S] : k \in 0..n} :
        \A i, j \in DOMAIN q : q[i] = q[j] => i = j}

SampleGroups ==
    {[GroupId |-> <<"sg-odd1">>, GroupName |-> <<"O", "d", "d">>],
     [GroupId |-> <<"sg-odd2">>, GroupName |-> <<"O", "d", "d", "b">>],
     [GroupId |-> <<"sg-x">>, GroupName |-> <<"x", "O", "d", "d">>],
     [GroupId |-> <<"sg-zmon1">>, GroupName |-> ZMON_SG_GROUP_NAME_REGEX],
     [GroupId |-> <<"sg-zmon2">>, GroupName |-> ZMON_SG_GROUP_NAME_REGEX \o <<"2">>]}

SampleKeys ==
    {[KeyId |-> <<"key-1">>, Arn |-> <<"arn:key-1">>, aliases |-> {},
      Description |-> <<"S", "p", "i", "l", "o">>],
     [KeyId |-> <<"key-2">>, Arn |-> <<"arn:key-2">>, aliases |-> {"alias/spilo"},
      Description |-> <<"m", "y", " ", "s", "p", "i", "l", "o", " ", "k">>],
     [KeyId |-> <<"key-3">>, Arn |-> <<"arn:key-3">>, aliases |-> {EBS_ALIAS},
      Description |-> <<"s", "p", "i", "l", "o">>],
     [KeyId |-> <<"key-4">>, Arn |-> <<"arn:key-4">>, aliases |-> {},
      Description |-> <<"s", "p", "i", "l">>]}

\* the hostnames detect_eu_team_nat_gateways probes: region and zone letter
NatCandidates ==
    <<[region |-> EU_WEST, az |-> "a"], [region |-> EU_WEST, az |-> "b"],
      [region |-> EU_WEST, az |-> "c"], [region |-> EU_CENTRAL, az |-> "a"],
      [region |-> EU_CENTRAL, az |-> "b"], [region |-> EU_CENTRAL, az |-> "c"]>>

\* the hostnames detect_eu_team_odd_instances probes
OddCandidates == <<[region |-> EU_WEST], [region |-> EU_CENTRAL]>>

NXDOMAIN == [rcode |-> "NXDOMAIN", addrs |-> <<>>]
Timeout == [rcode |-> "Timeout", addrs |-> <<>>]
Answer(addrs) == [rcode |-> "NOERROR", addrs |-> addrs]

\* the zone record naming the etcd cluster of a region's part of a zone
SrvName(region_part, zone) == <<"_etcd._tcp.">> \o region_part \o <<".">> \o zone

BaseWorld ==
    [image |-> <<"registry.opensource.zalan.do/acid/spilo-9.5:1.0">>,
     alias |-> <<"acct">>,
     zones |-> {<<"z", ".">>},
     records |-> <<[Type |-> "SRV", Name |-> SrvName(<<"w", "e", "s", "t">>, <<"z", ".">>)]>>,
     nat |-> [i \in 1..Len(NatCandidates) |-> IF i = 1 THEN Answer(<<(<<"10.0.0.1">>)>>) ELSE NXDOMAIN],
     odd |-> [i \in 1..Len(OddCandidates) |-> IF i = 1 THEN Answer(<<(<<"10.0.0.9">>)>>) ELSE NXDOMAIN],
     groups |-> <<[GroupId |-> <<"sg-odd1">>, GroupName |-> <<"O", "d", "d">>],
                  [GroupId |-> <<"sg-zmon1">>, GroupName |-> ZMON_SG_GROUP_NAME_REGEX]>>,
     keys |-> <<[KeyId |-> <<"key-1">>, Arn |-> <<"arn:key-1">>, aliases |-> {},
                 Description |-> <<"S", "p", "i", "l", "o">>]>>,
     region |-> EU_WEST,
     encrypt_ok |-> TRUE,
     bucket_ok |-> TRUE,
     price |-> 10]

\* what a gateway hostname can resolve to
NatAnswers(i) ==
    {NXDOMAIN, Answer(<<(<<"10.0.0.", NatCandidates[i].az>>)>>)}

\* what a bastion hostname can resolve to
OddAnswers == {NXDOMAIN, Answer(<<(<<"10.0.0.", "a">>)>>), Answer(<<(<<"10.0.0.9">>), <<"10.0.0.", "a">>>>)}

Worlds ==
    {[BaseWorld EXCEPT !.groups = g] : g \in DistinctSeqs(SampleGroups, MaxGroups)}
    \cup {[BaseWorld EXCEPT !.keys = k] : k \in DistinctSeqs(SampleKeys, MaxKeys)}
    \cup {[BaseWorld EXCEPT !.nat = n] :
            n \in {f \in [1..Len(NatCandidates) -> UNION {NatAnswers(i) : i \in 1..Len(NatCandidates)}] :
                     \A i \in 1..Len(NatCandidates) : f[i] \in NatAnswers(i)}}
    \cup {[BaseWorld EXCEPT !.nat[2] = Timeout],
          [BaseWorld EXCEPT !.nat[1] = NXDOMAIN, !.nat[3] = Timeout]}
    \cup {[BaseWorld EXCEPT !.odd = o] : o \in [1..Len(OddCandidates) -> OddAnswers]}
    \cup {[BaseWorld EXCEPT !.odd[1] = Timeout], [BaseWorld EXCEPT !.odd[2] = Timeout]}
    \cup {[BaseWorld EXCEPT !.zones = z, !.records = r] :
            z \in {{}, {<<"z", ".">>}, {<<"y", ".">>, <<"z", ".">>}},
            r \in {<<>>,
                   <<[Type |-> "A", Name |-> SrvName(<<"w", "e", "s", "t">>, <<"z", ".">>)]>>,
                   <<[Type |-> "SRV", Name |-> SrvName(<<"c", "e", "n", "t", "r", "a", "l">>, <<"z", ".">>)],
                     [Type |-> "SRV", Name |-> SrvName(<<"w", "e", "s", "t">>, <<"z", ".">>)]>>}}
    \cup {[BaseWorld EXCEPT !.image = <<>>],
          [BaseWorld EXCEPT !.region = EU_CENTRAL],
          [BaseWorld EXCEPT !.encrypt_ok = FALSE],
          [BaseWorld EXCEPT !.bucket_ok = FALSE]}

\* the world in which the pricing catalog yields no price
UnpricedWorld == [BaseWorld EXCEPT !.price = 0]


-----------------------------------------------------------------------------
(* The pure parts of base.py *)

\* set_default_variables replacing also the options present without a value
set_default_variables_fillEmpty(v, image, admin, standby, superuser) ==
    [k \in DOMAIN v \cup RecognizedOptions |->
        IF k \in DOMAIN v /\ ~(k \in {"team_name", "team_region"} /\ ~Truthy(v[k])) THEN v[k]
        ELSE IF k = "docker_image" THEN image
        ELSE IF k = "pgpassword_admin" THEN admin
        ELSE IF k = "pgpassword_standby" THEN standby
        ELSE IF k = "pgpassword_superuser" THEN superuser
        ELSE StaticDefaults[k]]

\* set_default_variables: dict.setdefault for every recognized option, given
\* what get_latest_image and the three generate_random_password calls returned
set_default_variables(v, image, admin, standby, superuser) ==
    [k \in DOMAIN v \cup RecognizedOptions |->
        IF k \in DOMAIN v THEN v[k]
        ELSE IF k = "docker_image" THEN image
        ELSE IF k = "pgpassword_admin" THEN admin
        ELSE IF k = "pgpassword_standby" THEN standby
        ELSE IF k = "pgpassword_superuser" THEN superuser
        ELSE StaticDefaults[k]]

\* the list `missing` when the loop stops at the first missing option
MissingFields_first(v) ==
    LET all == SelectSeq(RequiredFields, LAMBDA f : ~Truthy(Get(v, f)))
    IN  IF Len(all) > 1 THEN <<all[1]>> ELSE all

\* the list `missing` of gather_user_variables
MissingFields(v) == SelectSeq(RequiredFields, LAMBDA f : ~Truthy(Get(v, f)))

\* the text of the fatal error about missing values
MissingMessage(missing) ==
    <<"Missing values for the following variables: ">>
        \o Join(<<", ">>, [i \in 1..Len(missing) |-> <<missing[i]>>])

\* the '.' appended without looking at the last character
NormalizeZone_always(z) == z \o <<".">>

\* one round of the normalization loop: a zone name gets its trailing '.'
NormalizeZone(z) == IF z[Len(z)] # "." THEN z \o <<".">> ELSE z

\* the characters urlsplit accepts in a scheme
SchemeChars == {"l", "d", "a", "p", "s", "h", "+", "-", "."}

\* urlparse(url).path, for a URL without '?', '#' and ';'
UrlPath(url) ==
    LET i == IndexFrom(url, ":", 1)
        hasScheme == i > 1 /\ \A j \in 1..(i - 1) : url[j] \in SchemeChars
        rest == IF hasScheme THEN SubSeq(url, i + 1, Len(url)) ELSE url
    IN  IF StartsWith(rest, <<"/", "/">>)
        THEN LET after == SubSeq(rest, 3, Len(rest))
                 k == IndexFrom(after, "/", 1)
             IN  IF k = 0 THEN <<>> ELSE SubSeq(after, k, Len(after))
        ELSE rest

\* the ldap_suffix after the LDAP URL has been split
LdapSuffix(v) ==
    IF Truthy(v["ldap_url"])
    THEN LET path == UrlPath(v["ldap_url"])
         IN  IF path # <<>> /\ path[1] = "/" THEN Tail(path) ELSE v["ldap_suffix"]
    ELSE v["ldap_suffix"]

\* the marker appended to every label of the master name
DerivedReplicaName_everyLabel(master) ==
    LET parts == Split(master, ".")
    IN  Join(<<".">>, [i \in 1..Len(parts) |-> IF parts[i] # <<>> THEN parts[i] \o REPL ELSE parts[i]])

\* the replica name derived from a master name
DerivedReplicaName(master) ==
    LET replica_dns_components == Split(master, ".")
    IN  Join(<<".">>, [replica_dns_components EXCEPT ![1] = @ \o REPL])

\* the replica_dns_name after the derivation step
ReplicaName(v) ==
    IF Truthy(v["master_dns_name"]) /\ ~Truthy(v["replica_dns_name"])
    THEN DerivedReplicaName(v["master_dns_name"])
    ELSE v["replica_dns_name"]

\* check_dns_name testing for the zone anywhere in the name
check_dns_name_anywhere(name, hosted_zone) == Contains(name, hosted_zone)

\* check_dns_name(name, hosted_zone)
check_dns_name(name, hosted_zone) == EndsWith(name, hosted_zone)

\* s[:-1]
ButLast(s) == SubSeq(s, 1, Len(s) - 1)

\* the check made on the master name alone, as before the replica name is derived
BadDnsNames_masterOnly(v) ==
    SelectSeq(<<"master_dns_name">>,
              LAMBDA f : Truthy(v[f]) /\ ~EndsWith(v[f], SubSeq(v["hosted_zone"], 1, Len(v["hosted_zone"]) - 1)))

\* the DNS name options that fail the check of the hosted zone, in checking order
BadDnsNames(v) ==
    SelectSeq(DnsNameFields,
              LAMBDA f : Truthy(v[f]) /\ ~check_dns_name(v[f], ButLast(v["hosted_zone"])))

\* re.match(regex, s) for a regex of literal characters, '.' and '.*'
RECURSIVE ReMatch(_, _)
ReMatch(regex, s) ==
    IF regex = <<>> THEN TRUE
    ELSE IF Len(regex) >= 2 /\ regex[1] = "." /\ regex[2] = "*"
    THEN \E k \in 0..Len(s) : ReMatch(SubSeq(regex, 3, Len(regex)), SubSeq(s, k + 1, Len(s)))
    ELSE /\ s # <<>>
         /\ regex[1] \in {".", s[1]}
         /\ ReMatch(Tail(regex), Tail(s))

\* the list `sgs` when the regex is searched for anywhere in the name (re.search)
MatchingGroups_search(groups, sg_regex) ==
    SelectSeq(groups, LAMBDA sg :
        \E k \in 0..Len(sg.GroupName) :
            ReMatch(sg_regex, SubSeq(sg.GroupName, k + 1, Len(sg.GroupName))))

\* the list `sgs` of detect_security_group
MatchingGroups(groups, sg_regex) ==
    SelectSeq(groups, LAMBDA sg : ReMatch(sg_regex, sg.GroupName))

\* detect_security_group without its check for more than one match
detect_security_group_first(groups, sg_regex) ==
    LET sgs == MatchingGroups(groups, sg_regex)
    IN  IF Len(sgs) = 0
        THEN [fatal |-> TRUE, id |-> None,
              text |-> <<"Could not find security group which matches regex ">> \o sg_regex]
        ELSE [fatal |-> FALSE, id |-> sgs[1].GroupId, text |-> <<>>]

\* what detect_security_group does with the listing: a fatal error or a group id
detect_security_group(groups, sg_regex) ==
    LET sgs == MatchingGroups(groups, sg_regex)
    IN  IF Len(sgs) = 0
        THEN [fatal |-> TRUE, id |-> None,
              text |-> <<"Could not find security group which matches regex ">> \o sg_regex]
        ELSE IF Len(sgs) > 1
        THEN [fatal |-> TRUE, id |-> None,
              text |-> <<"More than one security group found for regex ">> \o sg_regex]
        ELSE [fatal |-> FALSE, id |-> sgs[1].GroupId, text |-> <<>>]

\* the list `kms_keys` when the description is not lowercased
SpiloKeys_caseSensitive(keys) ==
    SelectSeq(keys, LAMBDA k : EBS_ALIAS \notin k.aliases /\ Contains(k.Description, SPILO))

\* the list `kms_keys` of gather_user_variables
SpiloKeys(keys) ==
    SelectSeq(keys, LAMBDA k : EBS_ALIAS \notin k.aliases /\ Contains(Lower(k.Description), SPILO))

\* what encrypt returns for a plaintext under a key
Ciphertext(KeyId, Plaintext) == <<"enc(">> \o KeyId \o <<",">> \o Plaintext \o <<")">>

\* the password stored as it was, the result of encrypt dropped
Encrypted_plain(KeyId, Plaintext) == Plaintext

\* the value stored for a password after encryption
Encrypted(KeyId, Plaintext) == KMS_TAG \o Ciphertext(KeyId, Plaintext)


\* the addresses the probing loop collects from the answers, NXDOMAIN skipped
RECURSIVE Collected(_, _)
Collected(answers, n) ==
    IF n = 0 THEN <<>>
    ELSE Collected(answers, n - 1)
            \o (IF answers[n].rcode = "NXDOMAIN" THEN <<>> ELSE answers[n].addrs)

\* how many candidates the probing loop queries: all of them, or up to the
\* first query that raises something else than NXDOMAIN
Probed(answers, n) ==
    IF \E i \in 1..n : answers[i].rcode \notin {"NXDOMAIN", "NOERROR"}
    THEN CHOOSE i \in 1..n :
            /\ answers[i].rcode \notin {"NXDOMAIN", "NOERROR"}
            /\ \A j \in 1..(i - 1) : answers[j].rcode \in {"NXDOMAIN", "NOERROR"}
    ELSE n

\* a probing loop without the except clause: NXDOMAIN ends it like any other exception
Detected_uncaught(answers, n, what, team_zone_name) ==
    IF \E i \in 1..n : answers[i].rcode # "NOERROR"
    THEN [raised |-> TRUE, fatal |-> FALSE, addrs |-> <<>>, text |-> <<"dns.exception">>,
          probed |-> CHOOSE i \in 1..n :
                        /\ answers[i].rcode # "NOERROR"
                        /\ \A j \in 1..(i - 1) : answers[j].rcode = "NOERROR"]
    ELSE [raised |-> FALSE, fatal |-> FALSE, addrs |-> Collected(answers, n), text |-> <<>>,
          probed |-> n]

\* what a probing function (detect_eu_team_nat_gateways or
\* detect_eu_team_odd_instances) does with the resolver's answers
Detected(answers, n, what, team_zone_name) ==
    IF \E i \in 1..n : answers[i].rcode \notin {"NXDOMAIN", "NOERROR"}
    THEN [raised |-> TRUE, fatal |-> FALSE, addrs |-> <<>>, text |-> <<"dns.exception">>,
          probed |-> Probed(answers, n)]
    ELSE IF Collected(answers, n) = <<>>
    THEN [raised |-> FALSE, fatal |-> TRUE, addrs |-> <<>>,
          text |-> <<"Unable to detect ", what, ": make sure ">> \o team_zone_name
                      \o <<" account is set up correctly">>,
          probed |-> n]
    ELSE [raised |-> FALSE, fatal |-> FALSE, addrs |-> Collected(answers, n), text |-> <<>>,
          probed |-> n]

detect_eu_team_nat_gateways(answers, team_zone_name) ==
    Detected(answers, Len(NatCandidates), "nat gateways", team_zone_name)

detect_eu_team_odd_instances(answers, team_zone_name) ==
    Detected(answers, Len(OddCandidates), "odd hosts", team_zone_name)

\* the hostname of the i-th gateway candidate
NatHostname(i, team_zone_name) ==
    <<"nat-">> \o NatCandidates[i].region \o <<NatCandidates[i].az, ".">> \o team_zone_name

\* the hostname of the i-th bastion candidate
OddHostname(i, team_zone_name) ==
    <<"odd-">> \o OddCandidates[i].region \o <<".">> \o team_zone_name

\* the text of one ingress rule
IngressRule(addr) ==
    <<"- IpProtocol: tcp", "NL+10", "FromPort: ", ToString(POSTGRES_PORT),
      "NL+10", "ToPort: ", ToString(POSTGRES_PORT), "NL+10", "CidrIp: ">> \o addr \o <<"/32">>

\* generate_spilo_master_security_group_ingress, after the first n addresses
RECURSIVE IngressUpTo(_, _)
IngressUpTo(addresses_to_allow, n) ==
    IF n = 0 THEN <<>>
    ELSE IngressUpTo(addresses_to_allow, n - 1)
            \o (IF addresses_to_allow[n] # addresses_to_allow[1] THEN <<"NL+8">> ELSE <<>>)
            \o IngressRule(addresses_to_allow[n])

generate_spilo_master_security_group_ingress(addresses_to_allow) ==
    IngressUpTo(addresses_to_allow, Len(addresses_to_allow))

\* s.lstrip(chars)
RECURSIVE LStrip(_, _)
LStrip(s, chars) ==
    IF s # <<>> /\ s[1] \in chars THEN LStrip(Tail(s), chars) ELSE s

\* s.rstrip(chars)
RECURSIVE RStrip(_, _)
RStrip(s, chars) ==
    IF s # <<>> /\ s[Len(s)] \in chars THEN RStrip(ButLast(s), chars) ELSE s

\* s.strip(chars)
Strip(s, chars) == RStrip(LStrip(s, chars), chars)

Whitespace == {" "}

\* s.split(sep, maxsplit)
RECURSIVE SplitMax(_, _, _)
SplitMax(s, sep, maxsplit) ==
    LET i == IndexFrom(s, sep, 1)
    IN  IF i = 0 \/ maxsplit = 0 THEN <<s>>
        ELSE <<SubSeq(s, 1, i - 1)>> \o SplitMax(SubSeq(s, i + 1, Len(s)), sep, maxsplit - 1)

\* the list `options` of generate_postgresql_configuration
ConfOptions(postgresqlconf) ==
    LET parts == Split(Strip(postgresqlconf, {"{", "}"}), ",")
    IN  [i \in 1..Len(parts) |-> Strip(parts[i], Whitespace)]

\* the text generate_postgresql_configuration builds from the first n options
RECURSIVE ConfUpTo(_, _)
ConfUpTo(options, n) ==
    IF n = 0 THEN <<>>
    ELSE LET kv == SplitMax(options[n], ":", 2)
         IN  ConfUpTo(options, n - 1)
                \o (IF options[n] # options[1] THEN <<"NL+20">> ELSE <<>>)
                \o Strip(kv[1], Whitespace) \o <<":", " ", " ">> \o Strip(kv[2], Whitespace)

\* generate_postgresql_configuration: the block, or the ValueError of unpacking
\* an option that does not split into exactly two parts
generate_postgresql_configuration(postgresqlconf) ==
    LET options == ConfOptions(postgresqlconf)
    IN  IF \E i \in 1..Len(options) : Len(SplitMax(options[i], ":", 2)) # 2
        THEN [raised |-> TRUE, text |-> <<"ValueError">>]
        ELSE [raised |-> FALSE, text |-> ConfUpTo(options, Len(options))]

\* get_records_for_hosted_zone: whether the zone is listed, hence its records returned
ZoneListed(w, zone_name) == zone_name \in w.zones

\* detect_etcd_discovery_domain_for_region, once the records are known
detect_etcd_discovery_domain_for_region(w, dbaas_zone, user_region) ==
    LET region_part == Split(user_region, "-")[2]
    IN  IF \E i \in 1..Len(w.records) :
              /\ w.records[i].Type = "SRV"
              /\ w.records[i].Name = SrvName(region_part, dbaas_zone)
        THEN region_part \o <<".">> \o ButLast(dbaas_zone)
        ELSE None

\* the value pystache substitutes for a placeholder of TEMPLATE
Substituted(v, k) == IF k \in DOMAIN v /\ v[k] # None THEN v[k] ELSE <<>>

\* the placeholders of TEMPLATE that carry the passwords
SecretPlaceholders == {"pgpassword_superuser", "pgpassword_admin", "pgpassword_standby"}

\* generate_definition: the value rendered at each password placeholder
generate_definition(v) == [k \in SecretPlaceholders |-> Substituted(v, k)]


-----------------------------------------------------------------------------
(* The state machine *)

NoError == [step |-> "none", text |-> <<>>]
NoDocument == [k \in SecretPlaceholders |-> <<"not rendered">>]

\* one collaborator call, with what it was given
Call(fn, arg) == [fn |-> fn, arg |-> arg]

\* the calls one run of set_default_variables makes
DefaultCalls ==
    <<Call("get_latest_image", <<>>), Call("generate_random_password", <<>>),
      Call("generate_random_password", <<>>), Call("generate_random_password", <<>>)>>

Init ==
    /\ \/ \E input \in Inputs : variables = input /\ world = BaseWorld
       \/ \E w \in Worlds : variables = BaseInput /\ world = w
       \/ \E input \in SizingInputs : variables = input /\ world = UnpricedWorld
    /\ pc = "idle"
    /\ calls = <<>>
    /\ error = NoError
    /\ document = NoDocument
    /\ nDefaults = 0

\* the process ends with fatal_error (sys.exit) at the current step
Fatal(text) ==
    /\ pc' = "failed"
    /\ error' = [step |-> pc, text |-> text]

\* the process ends with an exception nobody catches at the current step
Raise(text) ==
    /\ pc' = "failed"
    /\ error' = [step |-> pc, text |-> text]

\* the caller applies set_default_variables itself (as generate_definition's doctest does)
SetDefaultVariables ==
    /\ pc \in {"idle", "returned"}
    /\ nDefaults < MaxDefaultCalls
    /\ \E admin, standby, superuser \in GeneratedPasswords :
          variables' = set_default_variables(variables, world.image, admin, standby, superuser)
    /\ calls' = calls \o DefaultCalls
    /\ nDefaults' = nDefaults + 1
    /\ UNCHANGED <<world, pc, error, document>>

\* the caller renders the record
GenerateDefinition ==
    /\ pc \in {"idle", "returned"}
    /\ document' = generate_definition(variables)
    /\ calls' = Append(calls, Call("pystache_render", <<>>))
    /\ pc' = "rendered"
    /\ UNCHANGED <<variables, world, error, nDefaults>>

\* gather_user_variables, line 425: set_default_variables(variables)
GatherDefaults ==
    /\ pc = "idle"
    /\ \E admin, standby, superuser \in GeneratedPasswords :
          variables' = set_default_variables(variables, world.image, admin, standby, superuser)
    /\ calls' = calls \o DefaultCalls
    /\ pc' = "required"
    /\ UNCHANGED <<world, error, document, nDefaults>>

\* lines 427-432: the required options
CheckRequired ==
    /\ pc = "required"
    /\ LET missing == MissingFields(variables)
       IN  IF Len(missing) > 0
           THEN Fatal(MissingMessage(missing))
           ELSE pc' = "region" /\ UNCHANGED error
    /\ UNCHANGED <<variables, world, calls, document, nDefaults>>

\* a check that compares only the leading geography code of the two regions
RegionMismatch_geography(requested, current) ==
    SubSeq(requested, 1, 2) # SubSeq(current, 1, 2)

\* line 435: the requested region is not the current one
RegionMismatch(requested, current) == requested # current

\* lines 435-438: the requested region is the current one
CheckRegion ==
    /\ pc = "region"
    /\ IF RegionMismatch(variables["team_region"], world.region)
       THEN Fatal(<<"Current region ">> \o world.region
                    \o <<" do not match the requested region ">> \o variables["team_region"])
       ELSE pc' = "wal" /\ UNCHANGED error
    /\ UNCHANGED <<variables, world, calls, document, nDefaults>>

\* line 440: the name of the WAL bucket
ComputeWalBucket ==
    /\ pc = "wal"
    /\ variables' = [variables EXCEPT !["wal_s3_bucket"] =
                        world.alias \o <<"-">> \o world.region \o <<"-spilo-dbaas">>]
    /\ calls' = Append(calls, Call("get_account_alias", <<>>))
    /\ pc' = "normalize"
    /\ UNCHANGED <<world, error, document, nDefaults>>

\* lines 442-444: the zones end with '.'
NormalizeZones ==
    /\ pc = "normalize"
    /\ variables' = [variables EXCEPT
                        !["team_gateway_zone"] = NormalizeZone(@),
                        !["hosted_zone"] = NormalizeZone(@)]
    /\ pc' = "ldap"
    /\ UNCHANGED <<world, calls, error, document, nDefaults>>

\* lines 447-450: the LDAP suffix is the path of the LDAP URL
ParseLdapUrl ==
    /\ pc = "ldap"
    /\ variables' = [variables EXCEPT !["ldap_suffix"] = LdapSuffix(variables)]
    /\ pc' = "replica"
    /\ UNCHANGED <<world, calls, error, document, nDefaults>>

\* lines 453-456: the replica name derived from the master name
DeriveReplicaName ==
    /\ pc = "replica"
    /\ variables' = [variables EXCEPT !["replica_dns_name"] = ReplicaName(variables)]
    /\ pc' = "dnscheck"
    /\ UNCHANGED <<world, calls, error, document, nDefaults>>

\* lines 459-462: the DNS names belong to the hosted zone (the message names
\* the option; the code prints its key with ' ' for '_')
CheckDnsNames ==
    /\ pc = "dnscheck"
    /\ LET bad == BadDnsNames(variables)
       IN  IF Len(bad) > 0
           THEN Fatal(<<bad[1], " should end with ">> \o ButLast(variables["hosted_zone"]))
           ELSE pc' = "ldapcheck" /\ UNCHANGED error
    /\ UNCHANGED <<variables, world, calls, document, nDefaults>>

\* lines 464-466: an LDAP URL needs a suffix
CheckLdapSuffix ==
    /\ pc = "ldapcheck"
    /\ IF Truthy(variables["ldap_url"]) /\ ~Truthy(variables["ldap_suffix"])
       THEN Fatal(<<"LDAP URL is missing the suffix">>)
       ELSE pc' = "etcd" /\ UNCHANGED error
    /\ UNCHANGED <<variables, world, calls, document, nDefaults>>


\* lines 469-470: the etcd discovery domain of the region
DetectEtcd ==
    /\ pc = "etcd"
    /\ calls' = Append(calls, Call("list_hosted_zones_by_name", variables["hosted_zone"]))
    /\ IF ~ZoneListed(world, variables["hosted_zone"])
       THEN /\ Fatal(<<"Unable to list records for ">> \o variables["hosted_zone"])
            /\ UNCHANGED variables
       ELSE /\ variables' = [variables EXCEPT !["discovery_domain"] =
                  detect_etcd_discovery_domain_for_region(world, variables["hosted_zone"], world.region)]
            /\ pc' = "nat"
            /\ UNCHANGED error
    /\ UNCHANGED <<world, document, nDefaults>>

\* line 473: the addresses of the NAT gateways
DetectNatGateways ==
    /\ pc = "nat"
    /\ LET r == detect_eu_team_nat_gateways(world.nat, variables["team_gateway_zone"])
       IN  /\ calls' = calls \o [i \in 1..r.probed |->
                            Call("resolver.query", NatHostname(i, variables["team_gateway_zone"]))]
           /\ IF r.raised THEN Raise(r.text) /\ UNCHANGED variables
              ELSE IF r.fatal THEN Fatal(r.text) /\ UNCHANGED variables
              ELSE /\ variables' = Put(variables, "nat_gateway_addresses", r.addrs)
                   /\ pc' = "odd"
                   /\ UNCHANGED error
    /\ UNCHANGED <<world, document, nDefaults>>

\* line 474: the addresses of the bastion hosts
DetectOddInstances ==
    /\ pc = "odd"
    /\ LET r == detect_eu_team_odd_instances(world.odd, variables["team_gateway_zone"])
       IN  /\ calls' = calls \o [i \in 1..r.probed |->
                            Call("resolver.query", OddHostname(i, variables["team_gateway_zone"]))]
           /\ IF r.raised THEN Raise(r.text) /\ UNCHANGED variables
              ELSE IF r.fatal THEN Fatal(r.text) /\ UNCHANGED variables
              ELSE /\ variables' = Put(variables, "odd_instance_addresses", r.addrs)
                   /\ pc' = "ingress"
                   /\ UNCHANGED error
    /\ UNCHANGED <<world, document, nDefaults>>

\* lines 475-477: the ingress rules of the master security group
RenderIngress ==
    /\ pc = "ingress"
    /\ variables' = Put(variables, "spilo_security_group_ingress_rules_block",
            generate_spilo_master_security_group_ingress(
                variables["nat_gateway_addresses"] \o variables["odd_instance_addresses"]))
    /\ pc' = "pgconf"
    /\ UNCHANGED <<world, calls, error, document, nDefaults>>

\* lines 479-480: the Postgres configuration block
RenderPostgresqlConf ==
    /\ pc = "pgconf"
    /\ IF Truthy(variables["postgresqlconf"])
       THEN LET r == generate_postgresql_configuration(variables["postgresqlconf"])
            IN  IF r.raised THEN Raise(r.text) /\ UNCHANGED variables
                ELSE /\ variables' = [variables EXCEPT !["postgresqlconf"] = r.text]
                     /\ pc' = "sg_odd"
                     /\ UNCHANGED error
       ELSE pc' = "sg_odd" /\ UNCHANGED <<variables, error>>
    /\ UNCHANGED <<world, calls, document, nDefaults>>

\* line 482: the security group of the bastion hosts
DetectOddSecurityGroup ==
    /\ pc = "sg_odd"
    /\ calls' = Append(calls, Call("describe_security_groups", ODD_SG_GROUP_NAME_REGEX))
    /\ LET r == detect_security_group(world.groups, ODD_SG_GROUP_NAME_REGEX)
       IN  IF r.fatal THEN Fatal(r.text) /\ UNCHANGED variables
           ELSE /\ variables' = [variables EXCEPT !["odd_sg_id"] = r.id]
                /\ pc' = "sg_zmon"
                /\ UNCHANGED error
    /\ UNCHANGED <<world, document, nDefaults>>

\* line 483: the security group of the monitoring
DetectZmonSecurityGroup ==
    /\ pc = "sg_zmon"
    /\ calls' = Append(calls, Call("describe_security_groups", ZMON_SG_GROUP_NAME_REGEX))
    /\ LET r == detect_security_group(world.groups, ZMON_SG_GROUP_NAME_REGEX)
       IN  IF r.fatal THEN Fatal(r.text) /\ UNCHANGED variables
           ELSE /\ variables' = [variables EXCEPT !["zmon_sg_id"] = r.id]
                /\ pc' = "sizing"
                /\ UNCHANGED error
    /\ UNCHANGED <<world, document, nDefaults>>

\* lines 485-488: the default IOPS and the EBS optimization
Sizing ==
    /\ pc = "sizing"
    /\ variables' = [variables EXCEPT
            !["volume_iops"] =
                IF variables["volume_type"] = <<"io1">> /\ ~Truthy(@)
                THEN <<ToString(variables["volume_size"] * 30)>> ELSE @,
            !["ebs_optimized"] = ebs_optimized_supported(variables["instance_type"])]
    /\ pc' = "kms"
    /\ UNCHANGED <<world, calls, error, document, nDefaults>>

\* lines 491-500: the KMS key
PickKmsKey ==
    /\ pc = "kms"
    /\ calls' = Append(calls, Call("list_kms_keys", world.region))
    /\ LET kms_keys == SpiloKeys(world.keys)
       IN  IF Len(kms_keys) = 0
           THEN /\ Fatal(<<"No KMS key is available for encrypting and decrypting.">>)
                /\ UNCHANGED variables
           ELSE /\ variables' = [variables EXCEPT !["kms_arn"] = kms_keys[1].Arn]
                /\ pc' = "encrypt"
                /\ UNCHANGED error
    /\ UNCHANGED <<world, document, nDefaults>>

\* kms_keyid, the local variable of gather_user_variables set at line 499
kms_keyid == SpiloKeys(world.keys)[1].KeyId

\* the encrypt calls of the loop of lines 502-504
EncryptCalls ==
    [i \in 1..Len(PasswordKeys) |->
        Call("encrypt", kms_keyid \o <<",">> \o variables[PasswordKeys[i]])]

\* lines 502-504: every pgpassword_ option is encrypted
EncryptPasswords ==
    /\ pc = "encrypt"
    /\ IF world.encrypt_ok
       THEN /\ variables' = [k \in DOMAIN variables |->
                                IF \E i \in 1..Len(PasswordKeys) : PasswordKeys[i] = k
                                THEN Encrypted(kms_keyid, variables[k])
                                ELSE variables[k]]
            /\ calls' = calls \o EncryptCalls
            /\ pc' = "bucket"
            /\ UNCHANGED error
       ELSE /\ Raise(<<"botocore.exceptions.ClientError">>)
            /\ calls' = Append(calls, EncryptCalls[1])
            /\ UNCHANGED variables
    /\ UNCHANGED <<world, document, nDefaults>>

\* line 506: the WAL bucket exists
CheckBucket ==
    /\ pc = "bucket"
    /\ calls' = Append(calls, Call("check_s3_bucket", variables["wal_s3_bucket"]))
    /\ IF world.bucket_ok
       THEN pc' = "spot" /\ UNCHANGED error
       ELSE Raise(<<"botocore.exceptions.ClientError">>)
    /\ UNCHANGED <<variables, world, document, nDefaults>>

\* lines 508-516: the spot price, and the return of the record
SpotPrice ==
    /\ pc = "spot"
    /\ IF variables["use_spot_instances"] /\ variables["spot_price"] = 0
       THEN /\ calls' = Append(calls, Call("get_on_demand_price", variables["instance_type"]))
            /\ IF world.price = 0
               THEN /\ Fatal(<<"Could not get the correct on-demand price">>)
                    /\ UNCHANGED variables
               ELSE /\ variables' = [variables EXCEPT !["spot_price"] = (world.price * 12) \div 10]
                    /\ pc' = "returned"
                    /\ UNCHANGED error
       ELSE /\ pc' = "returned"
            /\ UNCHANGED <<variables, calls, error>>
    /\ UNCHANGED <<world, document, nDefaults>>

Next ==
    \/ SetDefaultVariables
    \/ GenerateDefinition
    \/ GatherDefaults
    \/ CheckRequired
    \/ CheckRegion
    \/ ComputeWalBucket
    \/ NormalizeZones
    \/ ParseLdapUrl
    \/ DeriveReplicaName
    \/ CheckDnsNames
    \/ CheckLdapSuffix
    \/ DetectEtcd
    \/ DetectNatGateways
    \/ DetectOddInstances
    \/ RenderIngress
    \/ RenderPostgresqlConf
    \/ DetectOddSecurityGroup
    \/ DetectZmonSecurityGroup
    \/ Sizing
    \/ PickKmsKey
    \/ EncryptPasswords
    \/ CheckBucket
    \/ SpotPrice

Spec == Init /\ [][Next]_vars


-----------------------------------------------------------------------------
(* Vocabulary of the properties *)

\* the steps of gather_user_variables after the defaulting, in the order of the code
Steps ==
    <<"required", "region", "wal", "normalize", "ldap", "replica", "dnscheck",
      "ldapcheck", "etcd", "nat", "odd", "ingress", "pgconf", "sg_odd", "sg_zmon",
      "sizing", "kms", "encrypt", "bucket", "spot">>

\* gather_user_variables has returned the record
GatherCompleted ==
    /\ pc \in {"returned", "rendered"}
    /\ \E i \in DOMAIN calls : calls[i].fn = "check_s3_bucket"

\* how far gather_user_variables came: the step it stands at or failed at
Rank(s) ==
    IF \E i \in DOMAIN Steps : Steps[i] = s
    THEN CHOOSE i \in DOMAIN Steps : Steps[i] = s
    ELSE IF s \in {"returned", "rendered"} /\ GatherCompleted THEN Len(Steps) + 1
    ELSE 0

\* the step has been executed and did not fail
Passed(step) == Rank(IF pc = "failed" THEN error.step ELSE pc) > Rank(step)

\* the step of gather_user_variables that makes a collaborator call
\* (0: the defaulting; beyond all steps: the rendering)
CallRank(c) ==
    CASE c.fn \in {"get_latest_image", "generate_random_password"} -> 0
      [] c.fn = "get_account_alias" -> Rank("wal")
      [] c.fn = "list_hosted_zones_by_name" -> Rank("etcd")
      [] c.fn = "resolver.query" -> IF c.arg[1] = "nat-" THEN Rank("nat") ELSE Rank("odd")
      [] c.fn = "describe_security_groups" ->
            IF c.arg = ODD_SG_GROUP_NAME_REGEX THEN Rank("sg_odd") ELSE Rank("sg_zmon")
      [] c.fn = "list_kms_keys" -> Rank("kms")
      [] c.fn = "encrypt" -> Rank("encrypt")
      [] c.fn = "check_s3_bucket" -> Rank("bucket")
      [] c.fn = "get_on_demand_price" -> Rank("spot")
      [] OTHER -> Len(Steps) + 1

\* the functions called so far
Called == {calls[i].fn : i \in DOMAIN calls}

\* the groups of the listing whose name begins with the given text
GroupsNamed(prefix) ==
    {i \in DOMAIN world.groups : StartsWith(world.groups[i].GroupName, prefix)}

OddPrefix == <<"O", "d", "d">>
ZmonPrefix == <<"a", "p", "p", "-", "z", "m", "o", "n", "-", "d", "b">>

-----------------------------------------------------------------------------
(* C1: once a step of gather_user_variables has failed, the process has     *)
(* stopped: no collaborator of a later step has been called, nothing has    *)
(* been rendered and no record is returned; and when two security groups    *)
(* match the bastion rule, list_kms_keys, encrypt, check_s3_bucket and the  *)
(* rendering are never reached in a run that did the bastion lookup.        *)
C1_FailFast ==
    /\ error # NoError =>
          /\ pc = "failed"
          /\ document = NoDocument
          /\ \A i \in DOMAIN calls : CallRank(calls[i]) <= Rank(error.step)
    /\ (Cardinality(GroupsNamed(OddPrefix)) >= 2 /\ "describe_security_groups" \in Called) =>
          /\ pc = "failed"
          /\ error.step = "sg_odd"
          /\ Called \cap {"list_kms_keys", "encrypt", "check_s3_bucket", "pystache_render"} = {}

C1_Witness ==
    /\ pc = "failed"
    /\ error.step = "sg_odd"
    /\ Cardinality(GroupsNamed(OddPrefix)) = 2
    /\ "describe_security_groups" \in Called


-----------------------------------------------------------------------------
\* the text is the encrypted-and-tagged form of some plaintext under some key
IsEncrypted(text) ==
    /\ Len(text) >= 5
    /\ text[1] = "aws:kms:"
    /\ text[2] = "enc("
    /\ text[Len(text)] = ")"

\* the plaintext passwords of the run: generated ones and the caller's own
Plaintexts == GeneratedPasswords \cup (UserPasswords \ {Absent})

(* C2, as stated: whatever sequence of set_default_variables,              *)
(* gather_user_variables and generate_definition led to it, every password *)
(* value a rendered document carries is the encrypted-and-tagged form and  *)
(* no plaintext.                                                           *)
C2_Original ==
    (pc = "rendered" /\ RecognizedOptions \subseteq DOMAIN variables) =>
        \A k \in SecretPlaceholders :
            IsEncrypted(document[k]) /\ document[k] \notin Plaintexts

(* C2, amended: every password value of a document rendered from a record  *)
(* that gather_user_variables has returned is the encrypted-and-tagged     *)
(* form 'aws:kms:' + encrypt(...) under the selected key and no plaintext  *)
(* (a record rendered without gather_user_variables carries its passwords  *)
(* as they are).                                                           *)
C2_NoPlaintextAfterGather ==
    (pc = "rendered" /\ GatherCompleted) =>
        \A k \in SecretPlaceholders :
            /\ IsEncrypted(document[k])
            /\ document[k] \notin Plaintexts
            /\ \E p \in Plaintexts : document[k] = <<"aws:kms:", "enc(">> \o kms_keyid \o <<",">> \o p \o <<")">>

C2_Witness ==
    /\ pc = "rendered"
    /\ GatherCompleted
    /\ document["pgpassword_admin"] = <<"aws:kms:", "enc(", "key-1", ",", "U", "1", ")">>
    /\ \E p \in GeneratedPasswords :
          document["pgpassword_standby"] = <<"aws:kms:", "enc(", "key-1", ",">> \o p \o <<")">>

-----------------------------------------------------------------------------
\* the required options that are absent, None or empty in the record
Unset == {f \in {"team_name", "team_region", "team_gateway_zone", "hosted_zone"} :
            f \notin DOMAIN variables \/ variables[f] = None \/ variables[f] = <<>>}

\* the positions of an atom in a text
Positions(text, atom) == {i \in DOMAIN text : text[i] = atom}

(* C3: gather_user_variables fails at the check of the required options    *)
(* exactly when one of team_name, team_region, team_gateway_zone and        *)
(* hosted_zone is absent or empty after the defaulting; it then fails       *)
(* before any derivation step (no collaborator of a later step was called,  *)
(* no WAL bucket name computed), and its one message names every missing    *)
(* option once, in that fixed order, and no other option.                   *)
C3_MissingAllListed ==
    /\ (pc = "failed" /\ error.step = "required") =>
          /\ Unset # {}
          /\ \A i \in DOMAIN calls : CallRank(calls[i]) = 0
          /\ variables["wal_s3_bucket"] = None
          /\ \A f \in {"team_name", "team_region", "team_gateway_zone", "hosted_zone"} :
                Cardinality(Positions(error.text, f)) = (IF f \in Unset THEN 1 ELSE 0)
          /\ \A i, j \in DOMAIN RequiredFields :
                (i < j /\ RequiredFields[i] \in Unset /\ RequiredFields[j] \in Unset) =>
                    \A a \in Positions(error.text, RequiredFields[i]) :
                        \A b \in Positions(error.text, RequiredFields[j]) : a < b
          /\ Len(error.text) = 2 * Cardinality(Unset)
          /\ Cardinality(Positions(error.text, ", ")) = Cardinality(Unset) - 1
    /\ Passed("required") => Unset = {}

C3_Witness ==
    /\ pc = "failed"
    /\ error.step = "required"
    /\ Unset = {"team_region", "hosted_zone", "team_name"}


-----------------------------------------------------------------------------
\* the DNS name options that are set
NamesSet == {f \in {"master_dns_name", "replica_dns_name"} : Truthy(variables[f])}

\* the hosted zone without its last character
ZoneSansDot == SubSeq(variables["hosted_zone"], 1, Len(variables["hosted_zone"]) - 1)

(* C4, as stated: every DNS name that passes the validation ends with the  *)
(* normalized hosted zone, trailing '.' included, and the validation is    *)
(* fatal only if some name does not end with it.                           *)
C4_Original ==
    /\ Passed("dnscheck") =>
          \A f \in NamesSet : EndsWith(variables[f], variables["hosted_zone"])
    /\ (pc = "failed" /\ error.step = "dnscheck") =>
          \E f \in NamesSet : ~EndsWith(variables[f], variables["hosted_zone"])

(* C4, amended: every non-empty master_dns_name or replica_dns_name that   *)
(* passes the validation ends with the normalized hosted zone without its  *)
(* trailing '.' (its last character removed); the validation is fatal      *)
(* exactly when some non-empty name does not end with that text, and the   *)
(* message names the first such option.                                    *)
C4_SuffixOfZoneSansDot ==
    /\ Passed("dnscheck") =>
          \A f \in NamesSet : EndsWith(variables[f], ZoneSansDot)
    /\ (pc = "failed" /\ error.step = "dnscheck") =>
          /\ \E f \in NamesSet : ~EndsWith(variables[f], ZoneSansDot)
          /\ error.text[1] \in NamesSet
          /\ ~EndsWith(variables[error.text[1]], ZoneSansDot)
          /\ error.text[1] = "replica_dns_name" =>
                ("master_dns_name" \in NamesSet => EndsWith(variables["master_dns_name"], ZoneSansDot))

C4_Witness ==
    /\ Passed("dnscheck")
    /\ variables["master_dns_name"] = <<"m", ".", "z">>
    /\ variables["replica_dns_name"] = <<"r", ".", "z">>
    /\ variables["hosted_zone"] = <<"z", ".">>

-----------------------------------------------------------------------------
\* the master name with the marker put after its first label: the text up
\* to the first '.', the marker, the text from the first '.' on
MarkedAfterFirstLabel(master) ==
    LET dots == {i \in DOMAIN master : master[i] = "."}
        first == IF dots = {} THEN Len(master) + 1
                 ELSE CHOOSE i \in dots : \A j \in dots : i <= j
    IN  SubSeq(master, 1, first - 1) \o <<"-", "r", "e", "p", "l">>
            \o SubSeq(master, first, Len(master))

\* the replica name of the record is the one derived from its master name
ReplicaIsDerived ==
    /\ Rank(IF pc = "failed" THEN error.step ELSE pc) >= Rank("dnscheck")
    /\ Truthy(variables["master_dns_name"])
    /\ variables["replica_dns_name"] = MarkedAfterFirstLabel(variables["master_dns_name"])

\* the length of the first label of a name
FirstLabelLen(name) ==
    IF \E i \in DOMAIN name : name[i] = "."
    THEN (CHOOSE i \in DOMAIN name : name[i] = "." /\ \A j \in 1..(i - 1) : name[j] # ".") - 1
    ELSE Len(name)

(* C5, as stated: a derived replica name is checked like a supplied one,   *)
(* so no run passes the validation with a derived name that fails the      *)
(* suffix check, and whenever the master name passes the check the name    *)
(* derived from it passes too.                                             *)
C5_Original ==
    ReplicaIsDerived =>
        /\ Passed("dnscheck") => EndsWith(variables["replica_dns_name"], ZoneSansDot)
        /\ EndsWith(variables["master_dns_name"], ZoneSansDot)
              => EndsWith(variables["replica_dns_name"], ZoneSansDot)

(* C5, amended: the derivation runs before the validation, so no run       *)
(* passes the validation with a derived replica name that fails the suffix *)
(* check; and whenever the master name passes the check and the zone text  *)
(* it is checked against is no longer than what follows the master name's  *)
(* first label, the derived name passes too (a zone text reaching into the *)
(* first label, as for a master name equal to the zone, makes the derived  *)
(* name fail although the master name passes).                             *)
C5_DerivedNameChecked ==
    ReplicaIsDerived =>
        /\ Passed("dnscheck") => EndsWith(variables["replica_dns_name"], ZoneSansDot)
        /\ ( /\ EndsWith(variables["master_dns_name"], ZoneSansDot)
             /\ Len(ZoneSansDot) <= Len(variables["master_dns_name"])
                                      - FirstLabelLen(variables["master_dns_name"]) )
              => EndsWith(variables["replica_dns_name"], ZoneSansDot)

C5_Witness ==
    /\ Passed("dnscheck")
    /\ variables["master_dns_name"] = <<"m", ".", "z">>
    /\ variables["replica_dns_name"] = <<"m", "-", "r", "e", "p", "l", ".", "z">>

-----------------------------------------------------------------------------
(* C6: at the derivation step, a non-empty master_dns_name with no         *)
(* replica_dns_name gives the replica name that is the master name with    *)
(* '-repl' appended to its first dot-separated label, all else unchanged;  *)
(* a replica name the caller supplied is kept, and so is the (empty)       *)
(* replica name when there is no master name; no other step of the         *)
(* pipeline changes replica_dns_name.                                      *)
C6_ReplicaDerivation ==
    [][ "replica_dns_name" \in DOMAIN variables =>
          variables'["replica_dns_name"] =
              IF /\ pc = "replica"
                 /\ Truthy(variables["master_dns_name"])
                 /\ ~Truthy(variables["replica_dns_name"])
              THEN MarkedAfterFirstLabel(variables["master_dns_name"])
              ELSE variables["replica_dns_name"] ]_vars

C6_Witness ==
    /\ pc = "dnscheck"
    /\ variables["master_dns_name"] = <<"m", ".", "z", ".">>
    /\ variables["replica_dns_name"] = <<"m", "-", "r", "e", "p", "l", ".", "z", ".">>

-----------------------------------------------------------------------------
(* C7, as stated: after the normalization team_gateway_zone and            *)
(* hosted_zone each end with '.' exactly once, never with '..'.            *)
C7_Original ==
    Passed("normalize") =>
        \A f \in {"team_gateway_zone", "hosted_zone"} :
            /\ EndsWith(variables[f], <<".">>)
            /\ ~EndsWith(variables[f], <<".", ".">>)

(* C7, amended: the normalization step appends exactly one '.' to a        *)
(* team_gateway_zone or hosted_zone that does not end with '.', and leaves *)
(* a value that ends with '.' unchanged; so the result always ends with    *)
(* '.', and it ends with '..' exactly when the input already did.          *)
C7_TrailingDot ==
    [][ pc = "normalize" =>
          \A f \in {"team_gateway_zone", "hosted_zone"} :
              LET old == variables[f]
                  new == variables'[f]
              IN  /\ old[Len(old)] # "." => new = old \o <<".">>
                  /\ old[Len(old)] = "." => new = old
                  /\ new[Len(new)] = "."
                  /\ EndsWith(new, <<".", ".">>) <=> EndsWith(old, <<".", ".">>) ]_vars

C7_Witness ==
    /\ pc = "ldap"
    /\ variables["hosted_zone"] = <<"z", ".", ".">>
    /\ variables["team_gateway_zone"] = <<"g", ".">>


-----------------------------------------------------------------------------
\* what a lookup of the groups named by a prefix must have done, given where
\* its result is stored
UniqueGroupLookup(step, prefix, option) ==
    /\ Passed(step) =>
          /\ Cardinality(GroupsNamed(prefix)) = 1
          /\ \A i \in GroupsNamed(prefix) : variables[option] = world.groups[i].GroupId
    /\ (pc = "failed" /\ error.step = step) =>
          /\ Cardinality(GroupsNamed(prefix)) # 1
          /\ variables[option] = None

(* C8: the bastion lookup (odd_sg_id, group names beginning with 'Odd')    *)
(* and the monitoring lookup (zmon_sg_id, names beginning with             *)
(* 'app-zmon-db') each return a group id exactly when one group of the     *)
(* listing matches, and then the id of that group; with no match or with   *)
(* two or more the run is fatal at that lookup and the option stays unset. *)
C8_ExactlyOneGroup ==
    /\ UniqueGroupLookup("sg_odd", OddPrefix, "odd_sg_id")
    /\ UniqueGroupLookup("sg_zmon", ZmonPrefix, "zmon_sg_id")

C8_Witness ==
    /\ Passed("sg_zmon")
    /\ Len(world.groups) = 3
    /\ variables["odd_sg_id"] = <<"sg-odd2">>
    /\ variables["zmon_sg_id"] = <<"sg-zmon2">>

-----------------------------------------------------------------------------
\* the description holds 'spilo' in whatever case
MentionsSpilo(desc) ==
    \E i \in 1..(Len(desc) - 4) :
        /\ desc[i] \in {"s", "S"}
        /\ desc[i + 1] \in {"p", "P"}
        /\ desc[i + 2] \in {"i", "I"}
        /\ desc[i + 3] \in {"l", "L"}
        /\ desc[i + 4] \in {"o", "O"}

\* the positions of the listed keys that may be used
UsableKeys ==
    {i \in DOMAIN world.keys :
        /\ "alias/aws/ebs" \notin world.keys[i].aliases
        /\ MentionsSpilo(world.keys[i].Description)}

\* the encrypt calls made so far
EncryptCallsMade == {i \in DOMAIN calls : calls[i].fn = "encrypt"}

(* C9: with no listed key that lacks the alias 'alias/aws/ebs' and         *)
(* mentions 'spilo' (in any case) in its description, the run is fatal at  *)
(* the key selection and nothing is encrypted; otherwise the first such    *)
(* key in listing order gives kms_arn (its Arn) and the KeyId of every     *)
(* encrypt call, also when several keys qualify, and each of the three     *)
(* passwords is encrypted once.                                            *)
C9_FirstSpiloKey ==
    /\ (pc = "failed" /\ error.step = "kms") =>
          /\ UsableKeys = {}
          /\ EncryptCallsMade = {}
          /\ variables["kms_arn"] = None
    /\ Passed("kms") =>
          /\ UsableKeys # {}
          /\ LET first == CHOOSE i \in UsableKeys : \A j \in UsableKeys : i <= j
             IN  /\ variables["kms_arn"] = world.keys[first].Arn
                 /\ \A c \in EncryptCallsMade :
                       StartsWith(calls[c].arg, world.keys[first].KeyId \o <<",">>)
    /\ Passed("encrypt") => Cardinality(EncryptCallsMade) = 3
    /\ ~Passed("kms") => EncryptCallsMade = {}

C9_Witness ==
    /\ Passed("encrypt")
    /\ Cardinality(UsableKeys) = 2
    /\ variables["kms_arn"] = <<"arn:key-2">>

-----------------------------------------------------------------------------
\* the step taken is an application of set_default_variables
DefaultsApplied == nDefaults' # nDefaults \/ (pc = "idle" /\ pc' = "required")

(* C10: an application of set_default_variables keeps the value of every   *)
(* key the record already holds (an empty or None value too) and leaves    *)
(* the record holding every recognized option; so applied to a record      *)
(* that went through it before, it changes nothing, although it calls      *)
(* get_latest_image and generate_random_password again.                    *)
C10_DefaultsKeepValues ==
    [][ DefaultsApplied =>
          /\ \A k \in DOMAIN variables : variables'[k] = variables[k]
          /\ DOMAIN variables' = DOMAIN variables \cup RecognizedOptions
          /\ RecognizedOptions \subseteq DOMAIN variables => variables' = variables
          /\ SubSeq(calls', Len(calls) + 1, Len(calls')) = DefaultCalls ]_vars

C10_Witness ==
    /\ nDefaults = 1
    /\ pc = "required"
    /\ Len(calls) = 2 * Len(DefaultCalls)
    /\ variables["team_name"] = <<>>
    /\ variables["team_region"] = None


-----------------------------------------------------------------------------
\* the addresses gather_user_variables hands to the ingress builder
IngressAddresses ==
    variables["nat_gateway_addresses"] \o variables["odd_instance_addresses"]

\* the first n rules with one separator between each two successive ones
RECURSIVE RulesSeparated(_, _)
RulesSeparated(addrs, n) ==
    IF n = 0 THEN <<>>
    ELSE IF n = 1 THEN IngressRule(addrs[1])
    ELSE RulesSeparated(addrs, n - 1) \o <<"NL+8">> \o IngressRule(addrs[n])

(* C11: the ingress block gather_user_variables stores is one rule per      *)
(* address of the concatenated gateway and bastion results, in input order, *)
(* each rule with the Postgres port twice and '<address>/32', with exactly  *)
(* one separator between each two successive rules and none before the      *)
(* first, also when an address repeats.                                     *)
C11_Original ==
    Passed("ingress") =>
        variables["spilo_security_group_ingress_rules_block"]
            = RulesSeparated(IngressAddresses, Len(IngressAddresses))


-----------------------------------------------------------------------------
\* a fragment wrapped in one pair of braces
BraceWrapped(conf) ==
    Len(conf) >= 2 /\ conf[1] = "{" /\ conf[Len(conf)] = "}"

\* the comma-separated entries between the braces
ConfEntries(conf) == Split(SubSeq(conf, 2, Len(conf) - 1), ",")

\* the line of one entry: split on its first colon only, both sides trimmed
ConfLine(entry) ==
    LET i == IndexFrom(entry, ":", 1)
    IN  Strip(SubSeq(entry, 1, i - 1), Whitespace) \o <<":", " ", " ">>
            \o Strip(SubSeq(entry, i + 1, Len(entry)), Whitespace)

\* the lines of the first n entries with one separator between each two successive ones
RECURSIVE LinesSeparated(_, _)
LinesSeparated(entries, n) ==
    IF n = 0 THEN <<>>
    ELSE IF n = 1 THEN ConfLine(entries[1])
    ELSE LinesSeparated(entries, n - 1) \o <<"NL+20">> \o ConfLine(entries[n])

(* C12: for a brace-wrapped fragment whose comma-separated entries each     *)
(* contain a colon, the configuration step succeeds and stores one          *)
(* 'key:  value' line per entry in input order, each entry split on its     *)
(* first colon only (a value with a colon kept whole) and trimmed, with     *)
(* exactly one separator between successive lines and none before the       *)
(* first, also when two entries are textually equal.                        *)
C12_Original ==
    [][ ( /\ pc = "pgconf"
          /\ Truthy(variables["postgresqlconf"])
          /\ BraceWrapped(variables["postgresqlconf"])
          /\ \A i \in DOMAIN ConfEntries(variables["postgresqlconf"]) :
                IndexFrom(ConfEntries(variables["postgresqlconf"])[i], ":", 1) > 0 )
        => /\ pc' = "sg_odd"
           /\ variables'["postgresqlconf"] =
                LinesSeparated(ConfEntries(variables["postgresqlconf"]),
                               Len(ConfEntries(variables["postgresqlconf"]))) ]_vars


-----------------------------------------------------------------------------
\* the resolver.query calls made so far for hostnames with the given prefix
ProbesOf(prefix) ==
    SelectSeq(calls, LAMBDA c : c.fn = "resolver.query" /\ c.arg[1] = prefix)

\* the addresses of the candidates i..n that resolved, in the order of the candidates
RECURSIVE ResolvedFrom(_, _, _)
ResolvedFrom(answers, i, n) ==
    IF i > n THEN <<>>
    ELSE (IF answers[i].rcode = "NOERROR" THEN answers[i].addrs ELSE <<>>)
            \o ResolvedFrom(answers, i + 1, n)

\* the candidates whose query ended with another exception than NXDOMAIN
Broken(answers) == {i \in DOMAIN answers : answers[i].rcode \notin {"NXDOMAIN", "NOERROR"}}

\* the lookup of the given step has run (and failed, or was passed)
Ran(step) == Passed(step) \/ (pc = "failed" /\ error.step = step)

\* the claim about one lookup as stated: every candidate is probed, the
\* lookup fails exactly when none resolved, and it yields what resolved
ProbedAll(step, prefix, option, answers, hostnames) ==
    Ran(step) =>
        /\ ProbesOf(prefix) = hostnames
        /\ (pc = "failed" /\ error.step = step) <=> (ResolvedFrom(answers, 1, Len(answers)) = <<>>)
        /\ Passed(step) => variables[option] = ResolvedFrom(answers, 1, Len(answers))

\* the claim about one lookup with the queries that raise something else
\* than NXDOMAIN: the first such query ends the run with its exception
ProbedUntilBroken(step, prefix, option, answers, hostnames) ==
    Ran(step) =>
        IF Broken(answers) = {}
        THEN /\ ProbesOf(prefix) = hostnames
             /\ (pc = "failed" /\ error.step = step)
                    <=> (ResolvedFrom(answers, 1, Len(answers)) = <<>>)
             /\ (pc = "failed" /\ error.step = step) => error.text[1] = "Unable to detect "
             /\ Passed(step) => variables[option] = ResolvedFrom(answers, 1, Len(answers))
        ELSE LET first == CHOOSE i \in Broken(answers) : \A j \in Broken(answers) : i <= j
             IN  /\ ProbesOf(prefix) = SubSeq(hostnames, 1, first)
                 /\ pc = "failed" /\ error.step = step
                 /\ error.text = <<"dns.exception">>

NatProbes ==
    [i \in 1..Len(NatCandidates) |->
        Call("resolver.query", <<"nat-">> \o NatCandidates[i].region
                                  \o <<NatCandidates[i].az, ".">> \o variables["team_gateway_zone"])]

OddProbes ==
    [i \in 1..Len(OddCandidates) |->
        Call("resolver.query", <<"odd-">> \o OddCandidates[i].region
                                  \o <<".">> \o variables["team_gateway_zone"])]

(* C13, as stated: each lookup probes every candidate hostname of its       *)
(* enumeration (6 gateways, 2 bastions), skips the ones that do not         *)
(* resolve, yields exactly the addresses of the ones that resolved and is   *)
(* fatal if and only if none resolved.                                      *)
C13_Original ==
    /\ ProbedAll("nat", "nat-", "nat_gateway_addresses", world.nat, NatProbes)
    /\ ProbedAll("odd", "odd-", "odd_instance_addresses", world.odd, OddProbes)

(* C13, amended: as long as every query either resolves or ends with        *)
(* NXDOMAIN, each lookup probes every candidate hostname in order, skips    *)
(* the NXDOMAIN ones, yields exactly the addresses of the ones that         *)
(* resolved and is fatal if and only if none resolved; the first query that *)
(* raises another exception ends the run with that exception, and no later  *)
(* candidate is probed.                                                     *)
C13_ProbesAndSkips ==
    /\ ProbedUntilBroken("nat", "nat-", "nat_gateway_addresses", world.nat, NatProbes)
    /\ ProbedUntilBroken("odd", "odd-", "odd_instance_addresses", world.odd, OddProbes)

C13_Witness ==
    /\ pc = "odd"
    /\ world.nat[1] = NXDOMAIN
    /\ world.nat[2].rcode = "NOERROR"
    /\ world.nat[3] = NXDOMAIN
    /\ world.nat[5].rcode = "NOERROR"
    /\ Len(ProbesOf("nat-")) = Len(NatCandidates)
    /\ Len(variables["nat_gateway_addresses"]) = 2


-----------------------------------------------------------------------------
\* the external collaborators of the derivation: everything gather_user_variables
\* calls after its defaulting
DerivationCollaborators ==
    {"get_account_alias", "list_hosted_zones_by_name", "resolver.query",
     "describe_security_groups", "list_kms_keys", "encrypt", "check_s3_bucket",
     "get_on_demand_price"}

(* C14: a run of gather_user_variables whose team_region differs from the   *)
(* current region fails at the region check, and at that point no external  *)
(* collaborator of the derivation (account alias, zone listing, DNS probes, *)
(* security-group and key listing, encrypt, bucket check, pricing) has been *)
(* called; any such call is preceded by a passed region check with equal    *)
(* regions; with equal regions the region check does not fail.              *)
C14_RegionCheckedFirst ==
    /\ Ran("region") =>
          /\ variables["team_region"] # world.region
                => pc = "failed" /\ error.step = "region"
          /\ variables["team_region"] = world.region
                => ~(pc = "failed" /\ error.step = "region")
    /\ (pc = "failed" /\ error.step = "region") => Called \cap DerivationCollaborators = {}
    /\ Called \cap DerivationCollaborators # {}
          => Passed("region") /\ variables["team_region"] = world.region

C14_Witness ==
    /\ pc = "failed"
    /\ error.step = "region"
    /\ variables["team_region"] = EU_CENTRAL
    /\ world.region = EU_WEST
    /\ error.text = <<"Current region ">> \o EU_WEST
                        \o <<" do not match the requested region ">> \o EU_CENTRAL
    /\ Called = {"get_latest_image", "generate_random_password"}


-----------------------------------------------------------------------------
\* no suffix can be derived from the URL: it has no path, or only '/'
NoSuffixDerivable(url) == UrlPath(url) \in {<<>>, <<"/">>}

(* C15: when an LDAP URL is given, the parsing step sets ldap_suffix to the *)
(* URL's path without its leading '/', and the suffix check is fatal        *)
(* whenever no suffix can be derived from the URL (no path, or only '/'),   *)
(* whatever ldap_suffix was supplied; a URL with a suffix passes the check; *)
(* without an LDAP URL the suffix is left unchanged and the check passes.   *)
C15_Original ==
    [][ /\ pc = "ldap" =>
              IF Truthy(variables["ldap_url"])
              THEN (UrlPath(variables["ldap_url"]) # <<>> /\ UrlPath(variables["ldap_url"])[1] = "/")
                      => variables'["ldap_suffix"] = Tail(UrlPath(variables["ldap_url"]))
              ELSE variables'["ldap_suffix"] = variables["ldap_suffix"]
        /\ pc = "ldapcheck" =>
              IF Truthy(variables["ldap_url"])
              THEN /\ NoSuffixDerivable(variables["ldap_url"]) => pc' = "failed"
                   /\ (~NoSuffixDerivable(variables["ldap_url"])
                            /\ UrlPath(variables["ldap_url"])[1] = "/") => pc' = "etcd"
              ELSE pc' = "etcd" ]_vars

=============================================================================
